---- MODULE Spec2Model ----
(***************************************************************************)
(* Model of tasks.ipynb: the bit primitives rotl, rotr, ch, maj over       *)
(* 32-bit words and the K&R string hash hash_function.                     *)
(*                                                                         *)
(* Python integers are unbounded two's-complement numbers.  An integer is  *)
(* modelled here by its bit pattern:                                       *)
(*    [neg |-> FALSE, bits |-> B]  is the non-negative number whose 1-bits *)
(*                                 are at the positions in B;              *)
(*    [neg |-> TRUE,  bits |-> B]  is the negative number whose 0-bits are *)
(*                                 at the positions in B (that is, ~v for  *)
(*                                 the non-negative v with 1-bits B).      *)
(* A shift by a negative count raises ValueError in Python; the raised     *)
(* exception is the value ValueError, and it propagates through every      *)
(* operator applied to it.                                                 *)
(***************************************************************************)
EXTENDS Integers, Sequences, FiniteSets

VARIABLES op, x, y, z, n, s, result, hashresult

vars == <<op, x, y, z, n, s, result, hashresult>>

-----------------------------------------------------------------------------
(* Bounds of the model *)

\* rotation counts are drawn from -MaxShift..MaxShift
MaxShift == 40

\* character sequences have at most MaxLen characters
MaxLen == 4

-----------------------------------------------------------------------------
(* Python integers and their bitwise operators *)

PyInt(b) == [neg |-> FALSE, bits |-> b]

ValueError == [exc |-> "ValueError"]

Raised(a) == "exc" \in DOMAIN a

\* bit i of the two's-complement pattern of a
Bit(a, i) == IF a.neg THEN i \notin a.bits ELSE i \in a.bits

\* a & b
BitAnd(a, b) ==
    IF Raised(a) \/ Raised(b) THEN ValueError
    ELSE CASE ~a.neg /\ ~b.neg -> PyInt(a.bits \cap b.bits)
           [] ~a.neg /\ b.neg  -> PyInt(a.bits \ b.bits)
           [] a.neg /\ ~b.neg  -> PyInt(b.bits \ a.bits)
           [] a.neg /\ b.neg   -> [neg |-> TRUE, bits |-> a.bits \cup b.bits]

\* a | b
BitOr(a, b) ==
    IF Raised(a) \/ Raised(b) THEN ValueError
    ELSE CASE ~a.neg /\ ~b.neg -> PyInt(a.bits \cup b.bits)
           [] ~a.neg /\ b.neg  -> [neg |-> TRUE, bits |-> b.bits \ a.bits]
           [] a.neg /\ ~b.neg  -> [neg |-> TRUE, bits |-> a.bits \ b.bits]
           [] a.neg /\ b.neg   -> [neg |-> TRUE, bits |-> a.bits \cap b.bits]

\* ~a
BitNot(a) ==
    IF Raised(a) THEN ValueError
    ELSE [neg |-> ~a.neg, bits |-> a.bits]

\* a << k
Shl(a, k) ==
    IF Raised(a) \/ k < 0 THEN ValueError
    ELSE [neg |-> a.neg,
          bits |-> {i + k : i \in a.bits}
                     \cup (IF a.neg THEN 0..(k - 1) ELSE {})]

\* a >> k
Shr(a, k) ==
    IF Raised(a) \/ k < 0 THEN ValueError
    ELSE [neg |-> a.neg, bits |-> {i - k : i \in {j \in a.bits : j >= k}}]

\* the literal 0xFFFFFFFF
Mask32 == PyInt(0..31)

\* a hexadecimal literal of eight digits d[1] (most significant) .. d[8]
HexWord(d) ==
    PyInt({4 * (8 - k) + j : k \in 1..8, j \in 0..3} \cap
        {i \in 0..31 : (d[8 - (i \div 4)] \div (2 ^ (i % 4))) % 2 = 1})

-----------------------------------------------------------------------------
(* Variants of the functions, each with one slip                           *)

\* rotr pasted from rotl with the two shifts left as they were
rotr_pasted(a, k) ==
    LET m == k % 32
    IN  BitAnd(BitOr(Shl(a, m), Shr(a, 32 - m)), Mask32)

\* rotl that forgets n %= 32
rotl_unreduced(a, k) ==
    BitAnd(BitOr(Shl(a, k), Shr(a, 32 - k)), Mask32)

\* rotl whose wrapped part is shifted by 31 - n
rotl_wrap31(a, k) ==
    LET m == k % 32
    IN  BitAnd(BitOr(Shl(a, m), Shr(a, 31 - m)), Mask32)

\* rotl that forgets & 0xFFFFFFFF
rotl_unmasked(a, k) ==
    LET m == k % 32
    IN  BitOr(Shl(a, m), Shr(a, 32 - m))

\* ch that forgets the ~
ch_noinvert(a, b, c) == BitOr(BitAnd(a, b), BitAnd(a, c))

\* ch with y and z exchanged
ch_swapped(a, b, c) == BitOr(BitAnd(a, c), BitAnd(BitNot(a), b))

\* maj with the pair (x, z) written twice
maj_typo(a, b, c) == BitOr(BitOr(BitAnd(a, b), BitAnd(a, c)), BitAnd(a, c))

\* maj without the pair (x, z)
maj_twopairs(a, b, c) == BitOr(BitAnd(a, b), BitAnd(b, c))

RECURSIVE HashLoop16(_, _)
\* the loop with a 16-bit accumulator
HashLoop16(hashval, t) ==
    IF t = <<>> THEN hashval
    ELSE HashLoop16((Head(t) + 31 * hashval) % 65536, Tail(t))

-----------------------------------------------------------------------------
(* The functions of the notebook *)

rotl(a, k) ==
    LET m == k % 32
    IN  BitAnd(BitOr(Shl(a, m), Shr(a, 32 - m)), Mask32)

rotr(a, k) ==
    LET m == k % 32
    IN  BitAnd(BitOr(Shr(a, m), Shl(a, 32 - m)), Mask32)

ch(a, b, c) == BitOr(BitAnd(a, b), BitAnd(BitNot(a), c))

maj(a, b, c) == BitOr(BitOr(BitAnd(a, b), BitAnd(a, c)), BitAnd(b, c))

RECURSIVE HashLoop(_, _)
\* the for loop of hash_function: hashval after the characters of t
HashLoop(hashval, t) ==
    IF t = <<>> THEN hashval
    ELSE HashLoop(Head(t) + 31 * hashval, Tail(t))

\* hash_function that forgets % 101
hash_unreduced(t) == HashLoop(0, t)

hash_function(t) == HashLoop(0, t) % 101

-----------------------------------------------------------------------------
(* Inputs *)

Zero == PyInt({})

\* the literals of the notebook's cells
X12345678 == HexWord(<<1, 2, 3, 4, 5, 6, 7, 8>>)
XF0F0F0F0 == HexWord(<<15, 0, 15, 0, 15, 0, 15, 0>>)
XAAAAAAAA == HexWord(<<10, 10, 10, 10, 10, 10, 10, 10>>)
X55555555 == HexWord(<<5, 5, 5, 5, 5, 5, 5, 5>>)
XCCCCCCCC == HexWord(<<12, 12, 12, 12, 12, 12, 12, 12>>)
XABCDEF01 == HexWord(<<10, 11, 12, 13, 14, 15, 0, 1>>)
XFF00FF00 == HexWord(<<15, 15, 0, 0, 15, 15, 0, 0>>)

\* the words given to ch and maj
Words ==
    {Zero, Mask32, PyInt({0}), PyInt({31}), PyInt(0..30), PyInt(1..31),
     X12345678, XF0F0F0F0, XAAAAAAAA, X55555555, XCCCCCCCC, XABCDEF01,
     XFF00FF00}

\* the words given to rotl and rotr: Words, every one-bit word and every
\* word with one bit clear
RotWords ==
    Words \cup {PyInt({i}) : i \in 0..31} \cup {PyInt((0..31) \ {i}) : i \in 0..31}

Shifts == (-MaxShift)..MaxShift

\* character codes: NUL, letters of the notebook's test strings, and a
\* code point beyond ASCII
Chars == {0, 97, 98, 100, 121, 2047}

RECURSIVE SeqsUpTo(_)
SeqsUpTo(k) ==
    IF k = 0 THEN {<<>>}
    ELSE LET shorter == SeqsUpTo(k - 1)
         IN  shorter \cup {Append(t, c) : t \in shorter, c \in Chars}

Strings == SeqsUpTo(MaxLen)

-----------------------------------------------------------------------------
(* The state: the arguments bound in the notebook, the call made on them   *)
(* (op, "none" before any call) and what it returned                       *)

\* the arguments are bound before the call: a word and a rotation count, or
\* three words, or a character sequence
Init ==
    /\ op = "none"
    /\ result = Zero
    /\ hashresult = 0
    /\ \/ x \in RotWords /\ n \in Shifts /\ y = Zero /\ z = Zero /\ s = <<>>
       \/ x \in Words /\ y \in Words /\ z \in Words /\ n = 0 /\ s = <<>>
       \/ s \in Strings /\ x = Zero /\ y = Zero /\ z = Zero /\ n = 0

CallRotl ==
    /\ op = "none"
    /\ op' = "rotl"
    /\ result' = rotl(x, n)
    /\ UNCHANGED <<x, y, z, n, s, hashresult>>

CallRotr ==
    /\ op = "none"
    /\ op' = "rotr"
    /\ result' = rotr(x, n)
    /\ UNCHANGED <<x, y, z, n, s, hashresult>>

CallCh ==
    /\ op = "none"
    /\ op' = "ch"
    /\ result' = ch(x, y, z)
    /\ UNCHANGED <<x, y, z, n, s, hashresult>>

CallMaj ==
    /\ op = "none"
    /\ op' = "maj"
    /\ result' = maj(x, y, z)
    /\ UNCHANGED <<x, y, z, n, s, hashresult>>

CallHash ==
    /\ op = "none"
    /\ op' = "hash_function"
    /\ hashresult' = hash_function(s)
    /\ UNCHANGED <<x, y, z, n, s, result>>

Next == CallRotl \/ CallRotr \/ CallCh \/ CallMaj \/ CallHash

Spec == Init /\ [][Next]_vars

-----------------------------------------------------------------------------
(* Properties *)

Rotated == op \in {"rotl", "rotr"}

\* the non-negative remainder of k modulo 32
Norm32(k) ==
    CHOOSE r \in 0..31 : \E q \in (-(MaxShift + 1))..(MaxShift + 1) : k = 32 * q + r

\* the result is a 32-bit word: not an exception, not negative, no bit
\* beyond position 31
IsWord(a) == ~Raised(a) /\ ~a.neg /\ a.bits \subseteq 0..31

BitCount(a, i) == IF Bit(a, i) THEN 1 ELSE 0

\* C1: rotl and rotr are mutual inverses for every rotation count:
\* rotr(rotl(x, n), n) = x and rotl(rotr(x, n), n) = x
RotlRotrInverse ==
    /\ op = "rotl" => rotr(result, n) = x
    /\ op = "rotr" => rotl(result, n) = x

RotlRotrInverseWitness ==
    /\ op = "rotl" /\ n < -32 /\ x = X12345678
    /\ result # x
    /\ rotr(result, n) = x

\* C2: the rotation count is reduced modulo 32 and never rejected:
\* rotl(x, n) = rotl(x, n mod 32), rotr(x, n) = rotr(x, n mod 32), and no
\* call raises
RotationCountNormalized ==
    /\ op = "rotl" => ~Raised(result) /\ result = rotl(x, Norm32(n))
    /\ op = "rotr" => ~Raised(result) /\ result = rotr(x, Norm32(n))

RotationCountNormalizedWitness ==
    /\ op = "rotr" /\ n > 32 /\ x = XABCDEF01
    /\ ~Raised(result)
    /\ result # x
    /\ result = rotr(x, Norm32(n))

\* C3: a rotation by a count that is 0 modulo 32 returns x unchanged
ZeroRotationIdentity ==
    (Rotated /\ Norm32(n) = 0) => result = x

ZeroRotationIdentityWitness ==
    /\ op = "rotl" /\ n = 32 /\ x = XF0F0F0F0
    /\ result = x

\* C4: every result of rotl, rotr, ch and maj is an integer r with
\* 0 <= r < 2^32
ResultFits32Bits ==
    op \in {"rotl", "rotr", "ch", "maj"} => IsWord(result)

ResultFits32BitsWitness ==
    /\ op = "rotl" /\ n = 31 /\ x = Mask32
    /\ Shl(x, 31).bits = 31..62
    /\ result = Mask32

\* C5: bit i of ch(x, y, z) is bit i of y where bit i of x is 1 and bit i
\* of z where it is 0; ch(0, y, z) = z and ch(0xFFFFFFFF, y, z) = y
ChSelectsPerBit ==
    op = "ch" =>
        /\ \A i \in 0..31 :
               Bit(result, i) = IF Bit(x, i) THEN Bit(y, i) ELSE Bit(z, i)
        /\ x = Zero => result = z
        /\ x = Mask32 => result = y

ChSelectsPerBitWitness ==
    /\ op = "ch"
    /\ x = XF0F0F0F0 /\ y = XAAAAAAAA /\ z = X55555555
    /\ result = HexWord(<<10, 5, 10, 5, 10, 5, 10, 5>>)

\* C6: bit i of maj(x, y, z) is 1 exactly when at least two of x, y, z have
\* bit i set; maj(x, x, z) = x
MajIsPerBitMajority ==
    op = "maj" =>
        /\ \A i \in 0..31 :
               Bit(result, i) <=>
                   BitCount(x, i) + BitCount(y, i) + BitCount(z, i) >= 2
        /\ x = y => result = x

MajIsPerBitMajorityWitness ==
    /\ op = "maj"
    /\ x = XF0F0F0F0 /\ y = XCCCCCCCC /\ z = XAAAAAAAA
    /\ result = HexWord(<<14, 8, 14, 8, 14, 8, 14, 8>>)

\* C7: maj returns the same word for every order of its three arguments
MajSymmetric ==
    op = "maj" =>
        /\ result = maj(x, z, y)
        /\ result = maj(y, x, z)
        /\ result = maj(y, z, x)
        /\ result = maj(z, x, y)
        /\ result = maj(z, y, x)

MajSymmetricWitness ==
    /\ op = "maj"
    /\ x # y /\ y # z /\ x # z
    /\ result \notin {x, y, z, Zero, Mask32}
    /\ result = maj(z, y, x)

\* C8: the recorded vectors are reproduced: rotl(0x12345678, 4) =
\* 0x23456781, rotl(0x12345678, 16) = 0x56781234, rotr(0x12345678, 4) =
\* 0x81234567, rotr(0x12345678, 16) = 0x56781234, ch(0xFF00FF00,
\* 0xAAAAAAAA, 0x55555555) = 0xAA55AA55, maj(0xFF00FF00, 0xAAAAAAAA,
\* 0x55555555) = 0xFF00FF00
ReferenceVectors ==
    /\ (op = "rotl" /\ x = X12345678 /\ n = 4)
           => result = HexWord(<<2, 3, 4, 5, 6, 7, 8, 1>>)
    /\ (op = "rotl" /\ x = X12345678 /\ n = 16)
           => result = HexWord(<<5, 6, 7, 8, 1, 2, 3, 4>>)
    /\ (op = "rotr" /\ x = X12345678 /\ n = 4)
           => result = HexWord(<<8, 1, 2, 3, 4, 5, 6, 7>>)
    /\ (op = "rotr" /\ x = X12345678 /\ n = 16)
           => result = HexWord(<<5, 6, 7, 8, 1, 2, 3, 4>>)
    /\ (op = "ch" /\ x = XFF00FF00 /\ y = XAAAAAAAA /\ z = X55555555)
           => result = HexWord(<<10, 10, 5, 5, 10, 10, 5, 5>>)
    /\ (op = "maj" /\ x = XFF00FF00 /\ y = XAAAAAAAA /\ z = X55555555)
           => result = XFF00FF00

ReferenceVectorsWitness ==
    /\ op = "ch" /\ x = XFF00FF00 /\ y = XAAAAAAAA /\ z = X55555555
    /\ result = HexWord(<<10, 10, 5, 5, 10, 10, 5, 5>>)

\* C9: hash_function returns a value in 0..100, and 0 for the empty
\* sequence
HashInRange ==
    op = "hash_function" =>
        /\ hashresult \in 0..100
        /\ s = <<>> => hashresult = 0

HashInRangeWitness ==
    /\ op = "hash_function"
    /\ Len(s) = 3
    /\ HashLoop(0, s) > 100
    /\ hashresult = 100

RECURSIVE HashReducedLoop(_, _)
\* the loop with the accumulator reduced modulo 101 after every character
HashReducedLoop(acc, t) ==
    IF t = <<>> THEN acc
    ELSE HashReducedLoop((Head(t) + 31 * acc) % 101, Tail(t))

\* C10: reducing the accumulator modulo 101 after every character returns
\* what hash_function returns with its single reduction at the end
HashStepwiseReductionAgrees ==
    op = "hash_function" => hashresult = HashReducedLoop(0, s)

HashStepwiseReductionAgreesWitness ==
    /\ op = "hash_function"
    /\ s = <<121, 97, 98, 98>>
    /\ HashLoop(0, s) > 65536
    /\ hashresult = HashReducedLoop(0, s)

====
